---- MODULE Spec2Model ----
(***************************************************************************)
(* A model of mmedit/datasets/pipelines/matting_aug.py: the three matting  *)
(* transforms MergeFgAndBg, GenerateTrimap and CompositeFg applied to a    *)
(* sample record.                                                          *)
(*                                                                         *)
(* Arrays are records [shape, dtype, data] with data flattened row-major.  *)
(* A uint8 element is its integer 0..255.  A float32 element is its IEEE   *)
(* 754 binary32 bit pattern (sign bit 0: every value the transforms        *)
(* compute is non-negative), so that the order of the values is the order  *)
(* of the integers and every operation rounds as numpy's float32 does      *)
(* (round to nearest, ties to even).                                       *)
(***************************************************************************)
EXTENDS Integers, Sequences, FiniteSets

(***************************************************************************)
(* float32 arithmetic on bit patterns (normal numbers and zero).           *)
(***************************************************************************)
F32One == 1065353216

F32Byte255 == 1132396544

F32Hidden == 8388608

F32Exp(b) == b \div F32Hidden

F32Mant(b) == IF b = 0 THEN 0 ELSE (b % F32Hidden) + F32Hidden

\* m in [2^23, 2^24]; m = 2^24 carries into the exponent by itself
F32Pack(m, e) == (e * F32Hidden) + (m - F32Hidden)

\* round to nearest, ties to even: rem is compared with half
RoundEven(m, rem, half) ==
  IF rem > half \/ (rem = half /\ m % 2 = 1) THEN m + 1 ELSE m

RECURSIVE BitLen(_)
BitLen(n) == IF n = 0 THEN 0 ELSE 1 + BitLen(n \div 2)

\* an integer 0 .. 2^24-1 as float32 (exact)
F32FromInt(n) ==
  IF n = 0 THEN 0
  ELSE LET k == BitLen(n)
       IN  F32Pack(n * (2 ^ (24 - k)), 126 + k)

\* <<floor(q * 2^k + r * 2^k / d), remainder>> by long division
RECURSIVE LongDiv(_, _, _, _)
LongDiv(q, r, d, k) ==
  IF k = 0 THEN <<q, r>>
  ELSE LET r2 == 2 * r
       IN  IF r2 >= d THEN LongDiv((2 * q) + 1, r2 - d, d, k - 1)
           ELSE LongDiv(2 * q, r2, d, k - 1)

F32Div(a, b) ==
  IF a = 0 THEN 0
  ELSE LET ma == F32Mant(a)
           mb == F32Mant(b)
           k  == IF ma >= mb THEN 23 ELSE 24
           qr == LongDiv(ma \div mb, ma % mb, mb, k)
           m  == IF (2 * qr[2]) > mb \/ ((2 * qr[2]) = mb /\ qr[1] % 2 = 1)
                 THEN qr[1] + 1 ELSE qr[1]
       IN  F32Pack(m, (F32Exp(a) - F32Exp(b)) + (150 - k))

\* the 48-bit product of the mantissas is kept in two 24-bit halves
F32Mul(a, b) ==
  IF a = 0 \/ b = 0 THEN 0
  ELSE LET ma == F32Mant(a)
           mb == F32Mant(b)
           a1 == ma \div 4096
           a0 == ma % 4096
           b1 == mb \div 4096
           b0 == mb % 4096
           p1 == (a1 * b0) + (a0 * b1)
           lo == ((p1 % 4096) * 4096) + (a0 * b0)
           hi == (a1 * b1) + (p1 \div 4096) + (lo \div 16777216)
           l  == lo % 16777216
           e  == F32Exp(a) + F32Exp(b)
       IN  IF hi >= F32Hidden
           THEN F32Pack(RoundEven(hi, l, F32Hidden), e - 126)
           ELSE F32Pack(RoundEven((2 * hi) + (l \div F32Hidden),
                                  l % F32Hidden, 4194304), e - 127)

\* x shifted right by d bits, the bits shifted out or-ed into the last bit
ShiftSticky(x, d) ==
  IF d = 0 THEN x
  ELSE IF d > 27 THEN 1
  ELSE LET q == x \div (2 ^ d)
       IN  IF x % (2 ^ d) # 0 /\ q % 2 = 0 THEN q + 1 ELSE q

\* s carries three extra bits (guard, round, sticky) below the mantissa
RoundGRS(s, e) == F32Pack(RoundEven(s \div 8, s % 8, 4), e)

F32Add(a, b) ==
  LET hi == IF a >= b THEN a ELSE b
      lo == IF a >= b THEN b ELSE a
  IN  IF lo = 0 THEN hi
      ELSE LET e == F32Exp(hi)
               s == (F32Mant(hi) * 8)
                    + ShiftSticky(F32Mant(lo) * 8, e - F32Exp(lo))
           IN  IF s >= 134217728
               THEN RoundGRS(ShiftSticky(s, 1), e + 1)
               ELSE RoundGRS(s, e)

RECURSIVE Normalize(_, _)
Normalize(s, e) ==
  IF s >= 67108864 THEN RoundGRS(s, e) ELSE Normalize(2 * s, e - 1)

\* a - b for a >= b
F32Sub(a, b) ==
  IF a = b THEN 0
  ELSE IF b = 0 THEN a
  ELSE LET e == F32Exp(a)
           s == (F32Mant(a) * 8)
                - ShiftSticky(F32Mant(b) * 8, e - F32Exp(b))
       IN  Normalize(s, e)

\* ndarray.astype(np.uint8) of a float32 in [0, 256): truncation
F32ToUint8(b) ==
  IF F32Exp(b) < 127 THEN 0
  ELSE F32Mant(b) \div (2 ^ (150 - F32Exp(b)))

(***************************************************************************)
(* numpy arrays: shape, dtype, row-major data; broadcasting.               *)
(***************************************************************************)
MaxOf(a, b) == IF a >= b THEN a ELSE b

RECURSIVE NumElems(_)
NumElems(shape) ==
  IF shape = <<>> THEN 1 ELSE Head(shape) * NumElems(Tail(shape))

Stride(shape, i) == NumElems(SubSeq(shape, i + 1, Len(shape)))

\* the shape aligned to n dimensions, ones in front
PadShape(shape, n) ==
  [i \in 1..n |-> IF i <= n - Len(shape) THEN 1 ELSE shape[i - (n - Len(shape))]]

CanBroadcast(s, t) ==
  LET n  == MaxOf(Len(s), Len(t))
      ps == PadShape(s, n)
      pt == PadShape(t, n)
  IN  \A i \in 1..n : IF ps[i] = pt[i] THEN TRUE ELSE 1 \in {ps[i], pt[i]}

BroadcastShape(s, t) ==
  LET n  == MaxOf(Len(s), Len(t))
      ps == PadShape(s, n)
      pt == PadShape(t, n)
  IN  [i \in 1..n |-> IF ps[i] = 1 THEN pt[i] ELSE ps[i]]

\* offset in an array of padded shape p of the element used at flat index k
\* (0-based) of the broadcast shape bs, summed over the dimensions i..n
RECURSIVE BroadcastOffset(_, _, _, _)
BroadcastOffset(p, k, bs, i) ==
  IF i > Len(bs) THEN 0
  ELSE (IF p[i] = 1 THEN 0
        ELSE ((k \div Stride(bs, i)) % bs[i]) * Stride(p, i))
       + BroadcastOffset(p, k, bs, i + 1)

BroadcastAt(A, k, bs) ==
  A.data[BroadcastOffset(PadShape(A.shape, Len(bs)), k, bs, 1) + 1]

\* ndarray.astype(np.float32)
AsF32(A) ==
  IF A.dtype = "float32" THEN A
  ELSE [shape |-> A.shape, dtype |-> "float32",
        data |-> [k \in 1..Len(A.data) |-> F32FromInt(A.data[k])]]

F32Apply(op, x, y) == IF op = "*" THEN F32Mul(x, y) ELSE F32Add(x, y)

\* a binary float32 operation on two arrays, uint8 operands promoted
Elementwise(op, A, B) ==
  LET bs == BroadcastShape(A.shape, B.shape)
      fa == AsF32(A)
      fb == AsF32(B)
  IN  [shape |-> bs, dtype |-> "float32",
       data |-> [k \in 1..NumElems(bs) |->
                   F32Apply(op, BroadcastAt(fa, k - 1, bs),
                                BroadcastAt(fb, k - 1, bs))]]

ArrMul(A, B) == Elementwise("*", A, B)

ArrAdd(A, B) == Elementwise("+", A, B)

\* arr / 255.
DivBy255(A) ==
  [shape |-> A.shape, dtype |-> "float32",
   data |-> [k \in 1..Len(A.data) |-> F32Div(A.data[k], F32Byte255)]]

\* arr * 255
MulBy255(A) ==
  [shape |-> A.shape, dtype |-> "float32",
   data |-> [k \in 1..Len(A.data) |-> F32Mul(A.data[k], F32Byte255)]]

\* 1 - arr, for arr in [0, 1]
OneMinus(A) ==
  [shape |-> A.shape, dtype |-> "float32",
   data |-> [k \in 1..Len(A.data) |-> F32Sub(F32One, A.data[k])]]

\* arr[..., None]
ExpandLast(A) == [A EXCEPT !.shape = Append(A.shape, 1)]

\* float32 array.astype(np.uint8)
AsUint8(A) ==
  [shape |-> A.shape, dtype |-> "uint8",
   data |-> [k \in 1..Len(A.data) |-> F32ToUint8(A.data[k])]]

\* results[key] = value
SetKey(r, key, value) ==
  [k \in (DOMAIN r) \cup {key} |-> IF k = key THEN value ELSE r[k]]

(***************************************************************************)
(* State.                                                                  *)
(***************************************************************************)
VARIABLES
  results,   \* the sample record handed from transform to transform
  pre,       \* the record as it was when the last call began
  keys0,     \* the keys of the record the loader produced
  last,      \* the last call: [op, how]
  steps,     \* calls the pipeline still makes on this record
  args,      \* the arguments GenerateTrimap was constructed with
  gt,        \* the GenerateTrimap instance: kernels, min_iteration, ...
  draw,      \* the locals of the last GenerateTrimap call
  comp       \* the locals of the last CompositeFg call

vars == <<results, pre, keys0, last, steps, args, gt, draw, comp>>

NoCall == [op |-> "none", how |-> "none"]

EmptyF32 == [shape |-> <<0, 0>>, dtype |-> "float32", data |-> <<>>]

NoComp == [stem |-> 0, alpha |-> EmptyF32, alpha2 |-> EmptyF32,
           alpha_tmp |-> EmptyF32]

\* bounds of the model
MaxH == 2

MaxW == 3

\* sample images: the bytes of seq, repeated from position seed on
Pattern(seq, seed, n) == [k \in 1..n |-> seq[((k - 1 + seed) % Len(seq)) + 1]]

Uint8Array(shape, data) == [shape |-> shape, dtype |-> "uint8", data |-> data]

(***************************************************************************)
(* GenerateTrimap                                                          *)
(***************************************************************************)
\* an int argument n, or a tuple (lo, hi)
IntArg(n) == [isint |-> TRUE, lo |-> n, hi |-> n]

TupleArg(lo, hi) == [isint |-> FALSE, lo |-> lo, hi |-> hi]

\* lines 42-50: an int n stands for the range [n, n + 1)
ArgMin(a) == a.lo

\* a slip: an int n taken as the empty range [n, n)
ArgMaxSameAsMin(a) == a.hi

ArgMax(a) == IF a.isint THEN a.lo + 1 ELSE a.hi

\* cvRound(sqrt(n)): the d with (d - 1/2)^2 < n < (d + 1/2)^2
RECURSIVE RoundSqrtFrom(_, _)
RoundSqrtFrom(n, d) ==
  IF n <= (d * d) + d THEN d ELSE RoundSqrtFrom(n, d + 1)

RoundSqrt(n) == RoundSqrtFrom(n, 0)

\* cv2.getStructuringElement(cv2.MORPH_ELLIPSE, (size, size)): row i holds
\* ones in the columns [c - dx, c + dx] with dx = round(c * sqrt(1 - dy^2/r^2))
EllipseCell(size, i, j) ==
  LET r  == size \div 2
      dy == i - r
      dx == RoundSqrt((r * r) - (dy * dy))
  IN  IF size = 1 THEN 1
      ELSE IF j >= MaxOf(r - dx, 0) /\ j < (IF r + dx + 1 <= size THEN r + dx + 1 ELSE size)
           THEN 1 ELSE 0

GetStructuringElement(size) ==
  Uint8Array(<<size, size>>,
             [k \in 1..(size * size) |->
                EllipseCell(size, (k - 1) \div size, (k - 1) % size)])

\* lines 41-56
GenerateTrimapInit(a) ==
  [kernels |-> [i \in 1..(ArgMax(a.kernel_size) - ArgMin(a.kernel_size)) |->
                  GetStructuringElement(ArgMin(a.kernel_size) + i - 1)],
   min_iteration |-> ArgMin(a.iterations),
   max_iteration |-> ArgMax(a.iterations),
   symmetric |-> a.symmetric]

\* line 41: iterations=1, symmetric=False
DefaultArgs ==
  [kernel_size |-> IntArg(1), iterations |-> IntArg(1), symmetric |-> FALSE]

\* a slip: the anchor left at the kernel's corner
KernelAnchorCorner(K) == 0

\* the default anchor (-1, -1) of cv2.erode and cv2.dilate: the kernel centre
KernelAnchor(K) == K.shape[1] \div 2

\* the pixels of A under the ones of K anchored at (y, x); pixels outside the
\* image do not count (the border value is the neutral one of the operation)
Neighbourhood(A, K, y, x) ==
  LET h == A.shape[1]
      w == A.shape[2]
      n == K.shape[1]
      c == KernelAnchor(K)
  IN  {A.data[((y + ky - c) * w) + (x + kx - c) + 1] :
         <<ky, kx>> \in {q \in (0..(n - 1)) \X (0..(n - 1)) :
                          /\ K.data[(q[1] * n) + q[2] + 1] = 1
                          /\ y + q[1] - c \in 0..(h - 1)
                          /\ x + q[2] - c \in 0..(w - 1)}}

SetMin(S) == CHOOSE m \in S : \A v \in S : m <= v

SetMax(S) == CHOOSE m \in S : \A v \in S : m >= v

\* one pass: an empty neighbourhood leaves the border value, which
\* saturates to 255 (erode) or 0 (dilate)
ErodeOnce(A, K) ==
  [A EXCEPT !.data =
     [k \in 1..Len(A.data) |->
        LET N == Neighbourhood(A, K, (k - 1) \div A.shape[2], (k - 1) % A.shape[2])
        IN  IF N = {} THEN 255 ELSE SetMin(N)]]

DilateOnce(A, K) ==
  [A EXCEPT !.data =
     [k \in 1..Len(A.data) |->
        LET N == Neighbourhood(A, K, (k - 1) \div A.shape[2], (k - 1) % A.shape[2])
        IN  IF N = {} THEN 0 ELSE SetMax(N)]]

\* cv2.erode(alpha, kernel, iterations=n): no pass for n = 0 or a 1 x 1 kernel
RECURSIVE Erode(_, _, _)
Erode(A, K, n) ==
  IF n = 0 \/ K.shape = <<1, 1>> THEN A ELSE Erode(ErodeOnce(A, K), K, n - 1)

RECURSIVE Dilate(_, _, _)
Dilate(A, K, n) ==
  IF n = 0 \/ K.shape = <<1, 1>> THEN A ELSE Dilate(DilateOnce(A, K), K, n - 1)

\* lines 77-81
TrimapOf(alpha, eroded, dilated) ==
  AsF32([alpha EXCEPT !.data =
           [k \in 1..Len(alpha.data) |->
              IF dilated.data[k] <= 0 THEN 0
              ELSE IF eroded.data[k] >= 255 THEN 255 ELSE 128]])

NoDraw ==
  [erode_ksize_idx |-> 0, erode_iter |-> 0,
   dilate_ksize_idx |-> 0, dilate_iter |-> 0,
   eroded |-> Uint8Array(<<0, 0>>, <<>>),
   dilated |-> Uint8Array(<<0, 0>>, <<>>)]

\* lines 58-82, over the draws of lines 62-70; the ranges of the
\* configurations are not empty and the record holds alpha, so that neither
\* np.random.randint nor the key lookup raises
GenerateTrimapCall ==
  /\ steps > 0
  /\ "alpha" \in DOMAIN results
  /\ \E ek \in 0..(Len(gt.kernels) - 1),
        ei \in gt.min_iteration..(gt.max_iteration - 1) :
       \E dk \in (IF gt.symmetric THEN {ek} ELSE 0..(Len(gt.kernels) - 1)),
          di \in (IF gt.symmetric THEN {ei}
                  ELSE gt.min_iteration..(gt.max_iteration - 1)) :
         LET alpha   == results["alpha"]
             eroded  == Erode(alpha, gt.kernels[ek + 1], ei)
             dilated == Dilate(alpha, gt.kernels[dk + 1], di)
         IN  /\ draw' = [erode_ksize_idx |-> ek, erode_iter |-> ei,
                         dilate_ksize_idx |-> dk, dilate_iter |-> di,
                         eroded |-> eroded, dilated |-> dilated]
             /\ results' = SetKey(results, "trimap",
                                  TrimapOf(alpha, eroded, dilated))
  /\ pre' = results
  /\ last' = [op |-> "GenerateTrimap", how |-> "returned"]
  /\ steps' = steps - 1
  /\ UNCHANGED <<keys0, args, gt, comp>>

\* bounds of the model
MaxTrimapW == 3

MaxKernel == 3

MaxIter == 2

TrimapBytes == {0, 128, 255}

AlphaRecord(alpha) == [k \in {"alpha"} |-> alpha]

\* every alpha of 2 x MaxTrimapW pixels, under three configurations
TrimapArgs ==
  { [kernel_size |-> IntArg(3), iterations |-> IntArg(1), symmetric |-> TRUE],
    [kernel_size |-> TupleArg(2, 4), iterations |-> TupleArg(1, 3),
     symmetric |-> FALSE],
    [kernel_size |-> TupleArg(1, 3), iterations |-> TupleArg(0, 2),
     symmetric |-> TRUE] }

InitTrimap ==
  /\ \E d \in [1..(2 * MaxTrimapW) -> TrimapBytes] :
       results = AlphaRecord(Uint8Array(<<2, MaxTrimapW>>, d))
  /\ pre = results
  /\ keys0 = DOMAIN results
  /\ last = NoCall
  /\ steps = 1
  /\ args \in TrimapArgs
  /\ gt = GenerateTrimapInit(args)
  /\ draw = NoDraw
  /\ comp = NoComp

NextTrimap == GenerateTrimapCall

SpecTrimap == InitTrimap /\ [][NextTrimap]_vars

\* every configuration up to the bounds, on two alphas
SizeArgs(lo, hi) ==
  {IntArg(n) : n \in lo..hi}
  \cup {TupleArg(a, b) : <<a, b>> \in {q \in (lo..(hi + 1)) \X (lo..(hi + 1)) : q[1] < q[2]}}

DrawArgs ==
  [kernel_size : SizeArgs(1, MaxKernel), iterations : SizeArgs(0, MaxIter),
   symmetric : BOOLEAN]

InitDraw ==
  /\ \E s \in 0..1 :
       results = AlphaRecord(Uint8Array(<<2, 2>>, Pattern(<<255, 128, 0>>, s, 4)))
  /\ pre = results
  /\ keys0 = DOMAIN results
  /\ last = NoCall
  /\ steps = 1
  /\ args \in DrawArgs
  /\ gt = GenerateTrimapInit(args)
  /\ draw = NoDraw
  /\ comp = NoComp

SpecDraw == InitDraw /\ [][NextTrimap]_vars

(***************************************************************************)
(* MergeFgAndBg                                                            *)
(***************************************************************************)
\* a slip: the channel axis is not added to alpha
MergeAlphaNoAxis(r) == DivBy255(AsF32(r["alpha"]))

\* line 18
MergeAlpha(r) == DivBy255(AsF32(ExpandLast(r["alpha"])))

MergeRequired == {"alpha", "fg", "bg"}

\* lines 18-20 raise KeyError without the required keys, line 21 raises
\* ValueError when the operands do not broadcast
MergeCompletes(r) ==
  IF MergeRequired \subseteq DOMAIN r
  THEN LET a == MergeAlpha(r).shape
       IN  /\ CanBroadcast(r["fg"].shape, a)
           /\ CanBroadcast(a, r["bg"].shape)
           /\ CanBroadcast(BroadcastShape(r["fg"].shape, a),
                           BroadcastShape(a, r["bg"].shape))
  ELSE FALSE

\* a slip: the foreground is added unweighted
MergedFgUnweighted(r) ==
  LET alpha == MergeAlpha(r)
  IN  ArrAdd(AsF32(r["fg"]), ArrMul(OneMinus(alpha), r["bg"]))

\* line 21
Merged(r) ==
  LET alpha == MergeAlpha(r)
  IN  ArrAdd(ArrMul(r["fg"], alpha), ArrMul(OneMinus(alpha), r["bg"]))

\* a slip: a fresh record is returned
MergeFgAndBgFresh(r) == [k \in {"merged"} |-> Merged(r)]

\* lines 22-23
MergeFgAndBg(r) == SetKey(r, "merged", Merged(r))

MergeFgAndBgCall ==
  /\ steps > 0
  /\ MergeCompletes(results)
  /\ results' = MergeFgAndBg(results)
  /\ pre' = results
  /\ last' = [op |-> "MergeFgAndBg", how |-> "returned"]
  /\ steps' = steps - 1
  /\ UNCHANGED <<keys0, args, gt, draw, comp>>

MergeFgAndBgRaise ==
  /\ steps > 0
  /\ ~MergeCompletes(results)
  /\ pre' = results
  /\ last' = [op |-> "MergeFgAndBg", how |-> "raised"]
  /\ steps' = 0
  /\ UNCHANGED <<results, keys0, args, gt, draw, comp>>

MergeAlphaBytes == <<0, 3, 65, 128, 255>>

MergeColorBytes == <<213, 3, 0, 255>>

MergeBgBytes == <<213, 255, 3, 3, 0>>

MergeRecord(h, w, nd, sa, sf, sb) ==
  [k \in {"alpha", "fg", "bg"} |->
     IF k = "alpha"
     THEN Uint8Array(IF nd = 2 THEN <<h, w>> ELSE <<h, w, 1>>,
                     Pattern(MergeAlphaBytes, sa, h * w))
     ELSE IF k = "fg"
     THEN Uint8Array(<<h, w, 3>>, Pattern(MergeColorBytes, sf, h * w * 3))
     ELSE Uint8Array(<<h, w, 3>>, Pattern(MergeBgBytes, sb, h * w * 3))]

InitMerge ==
  /\ \E h \in 1..MaxH, w \in 1..MaxW, nd \in {2, 3},
        sa \in 0..(Len(MergeAlphaBytes) - 1),
        sf \in 0..(Len(MergeColorBytes) - 1),
        sb \in 0..(Len(MergeBgBytes) - 1) :
       results = MergeRecord(h, w, nd, sa, sf, sb)
  /\ pre = results
  /\ keys0 = DOMAIN results
  /\ last = NoCall
  /\ steps = 1
  /\ args = DefaultArgs
  /\ gt = GenerateTrimapInit(args)
  /\ draw = NoDraw
  /\ comp = NoComp

NextMerge == MergeFgAndBgCall \/ MergeFgAndBgRaise

SpecMerge == InitMerge /\ [][NextMerge]_vars

(***************************************************************************)
(* CompositeFg                                                             *)
(***************************************************************************)
\* the two directories: stem |-> file.  Stems 1..3 hold one pixel, stems
\* 4..12 two pixels, of every alpha in Alpha2Bytes; stem 13 has no alpha
\* file, stem 14 an unreadable one, stem 15 an unreadable foreground.
Alpha2Bytes == <<0, 128, 255>>

Fg2Bytes == <<40, 200, 90, 255, 0>>

GoodFile(img) == [readable |-> TRUE, img |-> img]

CorruptFile == [readable |-> FALSE, img |-> Uint8Array(<<0, 0>>, <<>>)]

AlphaFile(i) ==
  IF i <= 3 THEN GoodFile(Uint8Array(<<1, 1>>, <<Alpha2Bytes[i]>>))
  ELSE IF i <= 12
  THEN GoodFile(Uint8Array(<<1, 2>>, <<Alpha2Bytes[((i - 4) \div 3) + 1],
                                       Alpha2Bytes[((i - 4) % 3) + 1]>>))
  ELSE IF i = 14 THEN CorruptFile
  ELSE GoodFile(Uint8Array(<<1, 1>>, <<128>>))

FgFile(i) ==
  IF i <= 3 THEN GoodFile(Uint8Array(<<1, 1, 3>>, Pattern(Fg2Bytes, i, 3)))
  ELSE IF i <= 12 THEN GoodFile(Uint8Array(<<1, 2, 3>>, Pattern(Fg2Bytes, i, 6)))
  ELSE IF i = 15 THEN CorruptFile
  ELSE GoodFile(Uint8Array(<<1, 1, 3>>, Pattern(Fg2Bytes, i, 3)))

FgDir == [i \in 1..15 |-> FgFile(i)]

AlphaDir == [i \in (1..15) \ {13} |-> AlphaFile(i)]

\* lines 133, 169-176: the stems of the files of the foreground directory
StemList == [i \in 1..Cardinality(DOMAIN FgDir) |-> i]

\* mmcv.imresize(img, (w, h), interpolation='nearest'): pixel (y, x) is the
\* source pixel (floor(y * h2 / h), floor(x * w2 / w))
ImResize(A, h, w) ==
  LET h2 == A.shape[1]
      w2 == A.shape[2]
      c  == IF Len(A.shape) = 3 THEN A.shape[3] ELSE 1
  IN  [shape |-> IF Len(A.shape) = 3 THEN <<h, w, c>> ELSE <<h, w>>,
       dtype |-> A.dtype,
       data |-> [k \in 1..(h * w * c) |->
                   LET y == (k - 1) \div (w * c)
                       x == ((k - 1) \div c) % w
                   IN  A.data[((((y * h2) \div h) * w2) + ((x * w2) \div w)) * c
                              + ((k - 1) % c) + 1]]]

CompositeRequired == {"fg", "alpha", "img_shape"}

\* a slip: alpha normalised by 256
NormalizeAlphaBy256(r) ==
  [shape |-> r["alpha"].shape, dtype |-> "float32",
   data |-> [k \in 1..Len(r["alpha"].data) |->
               F32Div(F32FromInt(r["alpha"].data[k]), F32FromInt(256))]]

\* line 137
NormalizeAlpha(r) == DivBy255(AsF32(r["alpha"]))

\* lines 144-152 complete for the stem: both files exist and are read
LoadCompletes(stem) ==
  IF stem \in DOMAIN AlphaDir
  THEN FgDir[stem].readable /\ AlphaDir[stem].readable
  ELSE FALSE

\* lines 144, 150
LoadFg2(stem, h, w) == ImResize(FgDir[stem].img, h, w)

\* lines 145-148, 151-152
LoadAlpha2(stem, h, w) == ImResize(DivBy255(AsF32(AlphaDir[stem].img)), h, w)

\* a slip: the opacities multiplied
AlphaTmpProduct(alpha, alpha2) == ArrMul(alpha, alpha2)

\* line 155
AlphaTmp(alpha, alpha2) ==
  OneMinus(ArrMul(OneMinus(alpha), OneMinus(alpha2)))

\* line 157: np.any(alpha_tmp < 1)
AnyBelowOne(A) == \E k \in 1..Len(A.data) : A.data[k] < F32One

\* lines 159-160; line 162 casts a copy and drops it
CompositeFgBlend(fg, fg2, alpha) ==
  ArrAdd(ArrMul(AsF32(fg), ExpandLast(alpha)),
         ArrMul(AsF32(fg2), OneMinus(ExpandLast(alpha))))

\* lines 164-166
WriteBack(r, fg, alpha) ==
  SetKey(SetKey(SetKey(r, "fg", fg),
                "alpha", AsUint8(MulBy255(alpha))),
         "img_shape", alpha.shape)

\* a slip: alpha normalised in the record itself, before the load
AtRaiseAlphaNormalized(r) ==
  IF CompositeRequired \subseteq DOMAIN r
  THEN SetKey(r, "alpha", NormalizeAlpha(r))
  ELSE r

\* the record when lines 136-152 raise: they assign locals only
AtRaise(r) == r

\* line 141 draws >= 0.5: lines 136-138 and 164-167
CompositeFgSkip ==
  /\ steps > 0
  /\ CompositeRequired \subseteq DOMAIN results
  /\ LET alpha == NormalizeAlpha(results)
     IN  /\ results' = WriteBack(results, results["fg"], alpha)
         /\ comp' = [NoComp EXCEPT !.alpha = alpha]
  /\ pre' = results
  /\ last' = [op |-> "CompositeFg", how |-> "skip"]
  /\ steps' = steps - 1
  /\ UNCHANGED <<keys0, args, gt, draw>>

\* line 141 draws < 0.5 and the load of the drawn stem completes
CompositeFgComposite ==
  /\ steps > 0
  /\ CompositeRequired \subseteq DOMAIN results
  /\ \E idx \in 0..(Len(StemList) - 1) :
       /\ LoadCompletes(StemList[idx + 1])
       /\ LET stem      == StemList[idx + 1]
              fg        == results["fg"]
              alpha     == NormalizeAlpha(results)
              h         == results["img_shape"][1]
              w         == results["img_shape"][2]
              fg2       == LoadFg2(stem, h, w)
              alpha2    == LoadAlpha2(stem, h, w)
              alpha_tmp == AlphaTmp(alpha, alpha2)
              applied   == AnyBelowOne(alpha_tmp)
          IN  /\ results' =
                   IF applied
                   THEN WriteBack(results, CompositeFgBlend(fg, fg2, alpha),
                                  alpha_tmp)
                   ELSE WriteBack(results, fg, alpha)
              /\ comp' = [stem |-> stem, alpha |-> alpha, alpha2 |-> alpha2,
                          alpha_tmp |-> alpha_tmp]
              /\ last' = [op |-> "CompositeFg",
                          how |-> IF applied THEN "applied" ELSE "discarded"]
  /\ pre' = results
  /\ steps' = steps - 1
  /\ UNCHANGED <<keys0, args, gt, draw>>

\* lines 136-138 raise KeyError, or the load of the drawn stem raises
CompositeRaises(r) ==
  IF CompositeRequired \subseteq DOMAIN r
  THEN \E idx \in 0..(Len(StemList) - 1) : ~LoadCompletes(StemList[idx + 1])
  ELSE TRUE

CompositeFgRaise ==
  /\ steps > 0
  /\ CompositeRaises(results)
  /\ results' = AtRaise(results)
  /\ pre' = results
  /\ last' = [op |-> "CompositeFg", how |-> "raised"]
  /\ steps' = 0
  /\ UNCHANGED <<keys0, args, gt, draw, comp>>

\* bound of the model
MaxCompositeW == 2

CompositeBytes == {0, 1, 128, 255}

FgBytes == <<255, 128, 3, 0, 77>>

BgBytes == <<10, 20, 30>>

CompositeRecord(w, d, sf) ==
  [k \in {"fg", "alpha", "img_shape", "bg"} |->
     IF k = "alpha" THEN Uint8Array(<<1, w>>, d)
     ELSE IF k = "fg" THEN Uint8Array(<<1, w, 3>>, Pattern(FgBytes, sf, w * 3))
     ELSE IF k = "bg" THEN Uint8Array(<<1, w, 3>>, Pattern(BgBytes, 0, w * 3))
     ELSE <<1, w>>]

DropKey(r, key) == [k \in (DOMAIN r) \ {key} |-> r[k]]

\* every alpha of 1 x w pixels over CompositeBytes, every one-pixel alpha,
\* and one-pixel records lacking a required key
CompositeRecords ==
  {CompositeRecord(Len(d), d, sf) :
     d \in UNION {[1..w -> CompositeBytes] : w \in 1..MaxCompositeW},
     sf \in 0..1}
  \cup {CompositeRecord(1, <<b>>, 0) : b \in 0..255}
  \cup {DropKey(CompositeRecord(1, <<b>>, 0), key) :
          b \in CompositeBytes, key \in CompositeRequired}

InitComposite ==
  /\ results \in CompositeRecords
  /\ pre = results
  /\ keys0 = DOMAIN results
  /\ last = NoCall
  /\ steps = 1
  /\ args = DefaultArgs
  /\ gt = GenerateTrimapInit(args)
  /\ draw = NoDraw
  /\ comp = NoComp

NextComposite == CompositeFgSkip \/ CompositeFgComposite \/ CompositeFgRaise

SpecComposite == InitComposite /\ [][NextComposite]_vars

(***************************************************************************)
(* The transforms in sequence, as the pipeline applies them                *)
(***************************************************************************)
\* bound of the model
MaxSteps == 3

PipelineArgs ==
  [kernel_size |-> TupleArg(2, 4), iterations |-> IntArg(1),
   symmetric |-> TRUE]

\* records from the loader, with and without a background
PipelineRecords ==
  {CompositeRecord(2, <<1, 255>>, 1),
   DropKey(CompositeRecord(1, <<128>>, 0), "bg")}

Init ==
  /\ results \in PipelineRecords
  /\ pre = results
  /\ keys0 = DOMAIN results
  /\ last = NoCall
  /\ steps = MaxSteps
  /\ args = PipelineArgs
  /\ gt = GenerateTrimapInit(args)
  /\ draw = NoDraw
  /\ comp = NoComp

Next ==
  \/ MergeFgAndBgCall
  \/ MergeFgAndBgRaise
  \/ GenerateTrimapCall
  \/ CompositeFgSkip
  \/ CompositeFgComposite
  \/ CompositeFgRaise

Spec == Init /\ [][Next]_vars

(***************************************************************************)
(* Properties of MergeFgAndBg                                              *)
(***************************************************************************)
MergeReturned == last = [op |-> "MergeFgAndBg", how |-> "returned"]

MinOf(a, b) == IF a <= b THEN a ELSE b

\* fg * (alpha / 255) + (1 - alpha / 255) * bg of one element, in float32
PixelBlend(f, a, b) ==
  LET an == F32Div(F32FromInt(a), F32Byte255)
  IN  F32Add(F32Mul(F32FromInt(f), an),
             F32Mul(F32Sub(F32One, an), F32FromInt(b)))

\* C4 as stated: for alpha of shape H x W or H x W x 1 the call completes and
\* merged has the shape H x W x 3 of fg and bg.
C4_MergedShapeAnyAlpha ==
  last.op = "MergeFgAndBg" =>
    /\ last.how = "returned"
    /\ results["merged"].shape = pre["fg"].shape

\* C4 amended: for alpha of shape H x W the call completes, merged has the
\* shape H x W x 3 of fg and bg, and element (i, j, c) of merged blends fg and
\* bg at (i, j, c) with alpha at (i, j); for alpha of shape H x W x 1 the call
\* raises when H, W >= 2 and H # W, and otherwise returns a merged of the
\* 4-dimensional shape (H, max(H, W), W, 3), never one of fg's shape.
C4_MergedShape2DAlpha ==
  last.op = "MergeFgAndBg" =>
    IF Len(pre["alpha"].shape) = 2
    THEN /\ last.how = "returned"
         /\ results["merged"].shape = pre["fg"].shape
         /\ Len(results["merged"].data) = Len(pre["fg"].data)
         /\ \A k \in 1..Len(pre["fg"].data) :
              results["merged"].data[k] =
                PixelBlend(pre["fg"].data[k],
                           pre["alpha"].data[((k - 1) \div 3) + 1],
                           pre["bg"].data[k])
    ELSE LET h == pre["alpha"].shape[1]
             w == pre["alpha"].shape[2]
         IN  IF h >= 2 /\ w >= 2 /\ h # w
             THEN last.how = "raised" /\ results = pre
             ELSE /\ last.how = "returned"
                  /\ results["merged"].shape = <<h, MaxOf(h, w), w, 3>>

C4_Witness ==
  /\ MergeReturned
  /\ pre["alpha"].shape = <<2, 3>>
  /\ results["merged"].shape = <<2, 3, 3>>
  /\ pre["alpha"].data[1] # pre["alpha"].data[2]

\* C7 as stated: every merged value lies within [min(fg, bg), max(fg, bg)].
C7_MergedWithinRange ==
  (MergeReturned /\ Len(pre["alpha"].shape) = 2) =>
    \A k \in 1..Len(pre["fg"].data) :
      /\ results["merged"].data[k]
           >= F32FromInt(MinOf(pre["fg"].data[k], pre["bg"].data[k]))
      /\ results["merged"].data[k]
           <= F32FromInt(MaxOf(pre["fg"].data[k], pre["bg"].data[k]))

\* C7 amended: every merged value lies within one float32 unit in the last
\* place of [min(fg, bg), max(fg, bg)] (the next float32 below min or above
\* max at most); merged = fg exactly where alpha = 255 and merged = bg exactly
\* where alpha = 0.
C7_MergedWithinOneUlp ==
  (MergeReturned /\ Len(pre["alpha"].shape) = 2) =>
    \A k \in 1..Len(pre["fg"].data) :
      LET f == pre["fg"].data[k]
          b == pre["bg"].data[k]
          a == pre["alpha"].data[((k - 1) \div 3) + 1]
          m == results["merged"].data[k]
      IN  /\ m >= F32FromInt(MinOf(f, b)) - 1
          /\ m <= F32FromInt(MaxOf(f, b)) + 1
          /\ a = 255 => m = F32FromInt(f)
          /\ a = 0 => m = F32FromInt(b)

\* a pixel one unit in the last place above max(fg, bg), and a half
\* transparent pixel strictly between differing fg and bg
C7_Witness ==
  /\ MergeReturned
  /\ Len(pre["alpha"].shape) = 2
  /\ \E k \in 1..Len(pre["fg"].data) :
       /\ pre["alpha"].data[((k - 1) \div 3) + 1] = 128
       /\ pre["fg"].data[k] < pre["bg"].data[k]
       /\ results["merged"].data[k] > F32FromInt(pre["fg"].data[k])
       /\ results["merged"].data[k] < F32FromInt(pre["bg"].data[k])
  /\ \E k \in 1..Len(pre["fg"].data) :
       results["merged"].data[k]
         = F32FromInt(MaxOf(pre["fg"].data[k], pre["bg"].data[k])) + 1
(***************************************************************************)
(* Properties of GenerateTrimap                                            *)
(***************************************************************************)
TrimapReturned == last = [op |-> "GenerateTrimap", how |-> "returned"]

\* C3: after a call, for every pixel: eroded >= 255 implies alpha = 255, and
\* alpha > 0 implies dilated > 0; no pixel has both eroded >= 255 and
\* dilated <= 0; and the trimap is 128 exactly where neither holds (255 where
\* eroded >= 255, 0 where dilated <= 0).
C3_TrimapMonotone ==
  TrimapReturned =>
    \A k \in 1..Len(pre["alpha"].data) :
      LET a == pre["alpha"].data[k]
          e == draw.eroded.data[k]
          d == draw.dilated.data[k]
          t == results["trimap"].data[k]
      IN  /\ e >= 255 => a = 255
          /\ a > 0 => d > 0
          /\ ~(e >= 255 /\ d <= 0)
          /\ t = F32FromInt(128) <=> (~(e >= 255) /\ ~(d <= 0))
          /\ e >= 255 => t = F32FromInt(255)
          /\ d <= 0 => t = 0

\* a call that eroded and dilated with a kernel larger than one pixel and
\* produced all three trimap values
C3_Witness ==
  /\ TrimapReturned
  /\ draw.erode_iter >= 1
  /\ draw.dilate_iter >= 1
  /\ gt.kernels[draw.erode_ksize_idx + 1].shape[1] >= 2
  /\ gt.kernels[draw.dilate_ksize_idx + 1].shape[1] >= 2
  /\ draw.eroded # pre["alpha"]
  /\ draw.dilated # pre["alpha"]
  /\ {results["trimap"].data[k] : k \in 1..Len(results["trimap"].data)}
       = {0, F32FromInt(128), F32FromInt(255)}

\* C9: the kernel list holds one kernel per size in [min, max), an int k
\* giving the one kernel of size k and an int n the one iteration count n;
\* the drawn kernel indices are indices of the list, the drawn iteration
\* counts lie in [min_iteration, max_iteration), and with symmetric the
\* dilation draws equal the erosion draws.
C9_DrawDomain ==
  LET ks == args.kernel_size
      it == args.iterations
      lo == ks.lo
      hi == IF ks.isint THEN ks.lo + 1 ELSE ks.hi
  IN  /\ Len(gt.kernels) = hi - lo
      /\ \A i \in 1..Len(gt.kernels) :
           gt.kernels[i].shape = <<lo + i - 1, lo + i - 1>>
      /\ ks.isint => (Len(gt.kernels) = 1 /\ gt.kernels[1].shape = <<ks.lo, ks.lo>>)
      /\ gt.min_iteration = it.lo
      /\ gt.max_iteration = (IF it.isint THEN it.lo + 1 ELSE it.hi)
      /\ gt.symmetric = args.symmetric
      /\ TrimapReturned =>
           /\ draw.erode_ksize_idx \in 0..(Len(gt.kernels) - 1)
           /\ draw.dilate_ksize_idx \in 0..(Len(gt.kernels) - 1)
           /\ draw.erode_iter >= gt.min_iteration
           /\ draw.erode_iter < gt.max_iteration
           /\ draw.dilate_iter >= gt.min_iteration
           /\ draw.dilate_iter < gt.max_iteration
           /\ it.isint => (draw.erode_iter = it.lo /\ draw.dilate_iter = it.lo)
           /\ args.symmetric =>
                /\ draw.dilate_ksize_idx = draw.erode_ksize_idx
                /\ draw.dilate_iter = draw.erode_iter

\* a call without symmetric whose dilation draws both differ from the
\* erosion draws, both at the upper end of their ranges
C9_Witness ==
  /\ TrimapReturned
  /\ ~args.symmetric
  /\ ~args.kernel_size.isint
  /\ draw.dilate_ksize_idx = Len(gt.kernels) - 1
  /\ draw.dilate_iter = args.iterations.hi - 1
  /\ draw.erode_ksize_idx < draw.dilate_ksize_idx
  /\ draw.erode_iter < draw.dilate_iter
(***************************************************************************)
(* Properties of CompositeFg                                               *)
(***************************************************************************)
CompositeReturned ==
  last.op = "CompositeFg" /\ last.how \in {"skip", "discarded", "applied"}

Uniform255(A) == \A k \in 1..Len(A.data) : A.data[k] = 255

\* C1: on the skip branch, for a record with byte-valued alpha of h x w
\* pixels and img_shape = (h, w), the returned record equals the record
\* before the call: same fg, same alpha values, same img_shape, same value
\* under every other key, same keys.
C1_SkipLeavesRecord ==
  (last.op = "CompositeFg" /\ last.how = "skip") => results = pre

\* a skip on an alpha holding a byte that is neither 0 nor 255
C1_Witness ==
  /\ last.op = "CompositeFg"
  /\ last.how = "skip"
  /\ \E k \in 1..Len(pre["alpha"].data) : pre["alpha"].data[k] \in 1..254
  /\ "bg" \in DOMAIN results

\* C2: when alpha is uniformly 255 before the call, fg and alpha are
\* returned unchanged whatever the draws and the loaded sample.
C2_OpaqueIsNoOp ==
  (CompositeReturned /\ Uniform255(pre["alpha"])) =>
    /\ results["fg"] = pre["fg"]
    /\ results["alpha"] = pre["alpha"]
    /\ last.how # "applied"

\* an opaque two-pixel alpha met a loaded sample that is not opaque
C2_Witness ==
  /\ last.op = "CompositeFg"
  /\ last.how = "discarded"
  /\ Len(pre["alpha"].data) = 2
  /\ Uniform255(pre["alpha"])
  /\ \E k \in 1..Len(comp.alpha2.data) : comp.alpha2.data[k] < F32One

\* C6: on every path the fg written back has the element type of the input
\* fg, and the alpha written back is byte-valued in 0..255.
C6_WriteBackTypes ==
  CompositeReturned =>
    /\ results["fg"].dtype = pre["fg"].dtype
    /\ results["alpha"].dtype = "uint8"
    /\ \A k \in 1..Len(results["alpha"].data) :
         results["alpha"].data[k] \in 0..255

\* C8: where the composite is applied, for every pixel the combined opacity
\* is at least alpha, at least alpha2 and at most 1, and the alpha byte
\* written back is in 0..255 and not below the input alpha byte.
C8_ScreenBound ==
  (last.op = "CompositeFg" /\ last.how = "applied") =>
    \A k \in 1..Len(comp.alpha_tmp.data) :
      /\ comp.alpha_tmp.data[k] >= comp.alpha.data[k]
      /\ comp.alpha_tmp.data[k] >= comp.alpha2.data[k]
      /\ comp.alpha_tmp.data[k] <= F32One
      /\ results["alpha"].data[k] \in 0..255
      /\ results["alpha"].data[k] >= pre["alpha"].data[k]

\* C10: when the call raises, in the key lookups or while loading the second
\* sample, the record is exactly as before the call.
C10_RaiseLeavesRecord ==
  (last.op = "CompositeFg" /\ last.how = "raised") => results = pre

\* a raise from the load, on a record holding every required key
C10_Witness ==
  /\ last.op = "CompositeFg"
  /\ last.how = "raised"
  /\ steps = 0
  /\ CompositeRequired \subseteq DOMAIN pre
  /\ \E k \in 1..Len(pre["alpha"].data) : pre["alpha"].data[k] \in 1..254
(***************************************************************************)
(* Properties of the sequence                                              *)
(***************************************************************************)
\* the keys a transform writes
Owned(op) ==
  IF op = "MergeFgAndBg" THEN {"merged"}
  ELSE IF op = "GenerateTrimap" THEN {"trimap"}
  ELSE IF op = "CompositeFg" THEN {"fg", "alpha", "img_shape"}
  ELSE {}

\* C5: a call removes no key, adds keys only among those its transform owns
\* and leaves the value under every other key as it was; so after any
\* sequence of calls the keys of the record include its initial keys.
C5_Frame ==
  /\ (DOMAIN pre) \subseteq (DOMAIN results)
  /\ ((DOMAIN results) \ (DOMAIN pre)) \subseteq Owned(last.op)
  /\ \A k \in (DOMAIN pre) \ Owned(last.op) : results[k] = pre[k]
  /\ keys0 \subseteq (DOMAIN results)

\* MergeFgAndBg and GenerateTrimap ran, then CompositeFg applied a composite
C5_Witness ==
  /\ steps = 0
  /\ Len(pre["alpha"].data) = 2
  /\ last = [op |-> "CompositeFg", how |-> "applied"]
  /\ keys0 = {"fg", "alpha", "img_shape", "bg"}
  /\ DOMAIN results = keys0 \cup {"merged", "trimap"}
  /\ results["alpha"] # pre["alpha"]
====
